---- MODULE Spec2Model ----
(***************************************************************************)
(* SyncUserRepository (quivr_api/modules/sync/repository/sync_user.py):    *)
(* the CRUD statements on the syncs_user table and the provider dispatch   *)
(* of get_files_folder_user_sync.                                          *)
(*                                                                         *)
(* Text is modelled as a sequence of one-character strings, a Python dict  *)
(* as the sequence of its <<key, value>> pairs in insertion order, and an  *)
(* Optional value as <<>> (None) or <<v>>.                                 *)
(***************************************************************************)
EXTENDS Integers, Sequences, FiniteSets, TLC

\* Number of ids the store's identity column hands out.
MaxIds == 2

Owners == {"uA", "uB"}

None == <<>>
Some(v) == <<v>>

\* SQL NULL of a column (no JSON text is empty, no credentials payload used here is).
Null == <<>>

-----------------------------------------------------------------------------
(* Text helpers: str(int), its parse, str.lower(), json.dumps, json.loads *)

Digits == <<"0", "1", "2", "3", "4", "5", "6", "7", "8", "9">>

RECURSIVE IntStr(_)
IntStr(n) ==
    IF n < 10 THEN <<Digits[n + 1]>>
    ELSE IntStr(n \div 10) \o <<Digits[(n % 10) + 1]>>

DigitVal(c) == (CHOOSE i \in 1..10 : Digits[i] = c) - 1

RECURSIVE ParseInt(_)
ParseInt(s) ==
    IF Len(s) = 1 THEN DigitVal(s[1])
    ELSE 10 * ParseInt(SubSeq(s, 1, Len(s) - 1)) + DigitVal(s[Len(s)])

UpperCase ==
    <<"A", "B", "C", "D", "E", "F", "G", "H", "I", "J", "K", "L", "M",
      "N", "O", "P", "Q", "R", "S", "T", "U", "V", "W", "X", "Y", "Z">>
LowerCase ==
    <<"a", "b", "c", "d", "e", "f", "g", "h", "i", "j", "k", "l", "m",
      "n", "o", "p", "q", "r", "s", "t", "u", "v", "w", "x", "y", "z">>

\* Mutant of Lower: the provider name is compared as stored.
LowerMissing(s) == s

LowerChar(c) ==
    IF \E i \in 1..26 : UpperCase[i] = c
    THEN LowerCase[CHOOSE i \in 1..26 : UpperCase[i] = c]
    ELSE c

Lower(s) == [i \in 1..Len(s) |-> LowerChar(s[i])]

\* One "key": value item of json.dumps (keys are one-character strings, values small ints).
DumpsItem(kv) == <<"\"", kv[1], "\"", ":", " ">> \o IntStr(kv[2])

RECURSIVE DumpsItems(_)
DumpsItems(d) ==
    IF Len(d) = 0 THEN <<>>
    ELSE IF Len(d) = 1 THEN DumpsItem(d[1])
    ELSE DumpsItem(d[1]) \o <<",", " ">> \o DumpsItems(Tail(d))

\* json.dumps(state): the items in the dict's insertion order, no sort_keys.
Dumps(d) == <<"{">> \o DumpsItems(d) \o <<"}">>

\* Index of the first character at or after i that is not a digit.
RECURSIVE NumEnd(_, _)
NumEnd(s, i) ==
    IF i <= Len(s) /\ (\E k \in 1..10 : Digits[k] = s[i]) THEN NumEnd(s, i + 1) ELSE i

\* Parses the items of a JSON object text from position i (just after "{" or ", ").
RECURSIVE LoadsItems(_, _)
LoadsItems(s, i) ==
    IF s[i] = "}" THEN <<>>
    ELSE LET key == s[i + 1]
             vstart == i + 5
             vend == NumEnd(s, vstart)
             val == ParseInt(SubSeq(s, vstart, vend - 1))
             next == IF s[vend] = "," THEN vend + 2 ELSE vend
         IN  <<<<key, val>>>> \o LoadsItems(s, next)

\* json.loads of an object text: the pairs in the order of the text.
Loads(s) == LoadsItems(s, 2)

\* Python dict equality: same keys with the same values, whatever the order.
DictEq(d1, d2) ==
    {d1[i] : i \in 1..Len(d1)} = {d2[i] : i \in 1..Len(d2)}

-----------------------------------------------------------------------------
(* Input domains *)

Google == <<"G", "o", "o", "g", "l", "e">>

\* An opaque credentials payload.
Cred(n) == <<<<"token", n>>>>

\* State payloads: D12 and D21 hold the same pairs in a different insertion order.
D12 == <<<<"a", 1>>, <<"b", 2>>>>
D21 == <<<<"b", 2>>, <<"a", 1>>>>
D1 == <<<<"a", 1>>>>
StateDicts == {D12, D21, D1}

InputFields == {"user_id", "provider", "credentials", "state"}

\* SyncsUserInput: the field values and the set of fields that are set and not None.
CreateInputs ==
    {[vals |-> [user_id |-> u, provider |-> Google, credentials |-> Cred(1), state |-> d],
      supplied |-> InputFields] : u \in Owners, d \in {D12, D21}}
    \cup
    {[vals |-> [user_id |-> u, provider |-> Google, credentials |-> Cred(1), state |-> <<>>],
      supplied |-> InputFields \ {"state"}] : u \in Owners}

\* SyncUserUpdateInput.model_dump(): every field of the update input.
PatchInputs == [credentials : {Cred(2)}, state : {D12, D1}]

\* sync_user_id: int | None
OptIds == {None} \cup {Some(i) : i \in 0..MaxIds}

-----------------------------------------------------------------------------
(* The syncs_user table behind self.db *)

VARIABLES
    db,      \* the rows of syncs_user
    nextId,  \* the next value of the id identity column
    prev,    \* the rows before the last call
    last,    \* the last call: its name, arguments and result
    alone    \* per owner, the rows its own calls alone produce from its initial rows

vars == <<db, nextId, prev, last, alone>>

\* Python truthiness of an Optional[int]: None and 0 are falsy.
Truthy(x) == x # None /\ x[1] # 0

\* .eq("id", v): the client sends the value as text, the store compares the integer.
EqId(rows, lit) == {r \in rows : r.id = ParseInt(lit)}

\* .eq("user_id", v)
EqUserId(rows, u) == {r \in rows : r.user_id = u}

\* .eq("state", text): text equality on the stored serialization; NULL matches nothing.
EqState(rows, text) == {r \in rows : r.state # Null /\ r.state = text}

\* The column value the store keeps for a field of an insert or update payload.
ColumnValue(f, v) == IF f = "state" THEN Dumps(v) ELSE v

\* model_dump(exclude_none=True, exclude_unset=True)
ModelDump(input) == [f \in input.supplied |-> input.vals[f]]

\* Mutant of InsertRow: the state column is never written.
InsertRowWithoutState(payload, id) ==
    [id |-> id,
     user_id |-> payload.user_id,
     provider |-> payload.provider,
     credentials |-> IF "credentials" \in DOMAIN payload
                     THEN ColumnValue("credentials", payload.credentials)
                     ELSE Null,
     state |-> Null]

\* .insert(payload): absent columns are NULL, the id comes from the identity column.
InsertRow(payload, id) ==
    [id |-> id,
     user_id |-> payload.user_id,
     provider |-> payload.provider,
     credentials |-> IF "credentials" \in DOMAIN payload
                     THEN ColumnValue("credentials", payload.credentials)
                     ELSE Null,
     state |-> IF "state" \in DOMAIN payload
               THEN ColumnValue("state", payload.state)
               ELSE Null]

\* SyncsUser.model_validate(row): the state column read back as a dict (or None).
ModelValidate(r) ==
    [r EXCEPT !.state = IF r.state = Null THEN None ELSE Some(Loads(r.state))]

\* get_syncs_user: the rows of the owner, narrowed to one id when sync_user_id is truthy.
SyncsUserRows(rows, user_id, sync_user_id) ==
    LET query == EqUserId(rows, user_id)
    IN  IF Truthy(sync_user_id) THEN EqId(query, IntStr(sync_user_id[1])) ELSE query

\* get_sync_user_by_state: the rows whose state column equals json.dumps(state).
ByStateRows(rows, state) == EqState(rows, Dumps(state))

\* Mutant of DeleteRows: the user_id predicate is missing.
DeleteRowsAnyOwner(rows, sync_id, user_id) ==
    rows \ EqId(rows, IntStr(sync_id))

\* delete_sync_user: .delete().eq("id", sync_id).eq("user_id", user_id)
DeleteRows(rows, sync_id, user_id) ==
    rows \ EqUserId(EqId(rows, IntStr(sync_id)), user_id)

\* .update(payload) on one row
PatchRow(r, payload) ==
    [f \in DOMAIN r |-> IF f \in DOMAIN payload THEN ColumnValue(f, payload[f]) ELSE r[f]]

\* Mutant of UpdateRows: the user_id predicate is missing.
UpdateRowsAnyOwner(rows, user_id, state, payload) ==
    LET hit == EqState(rows, Dumps(state))
    IN  {IF r \in hit THEN PatchRow(r, payload) ELSE r : r \in rows}

\* Mutant of UpdateRows: an upsert, which inserts the payload when no row matches.
UpdateRowsUpsert(rows, user_id, state, payload) ==
    LET hit == EqState(EqUserId(rows, user_id), Dumps(state))
        ids == {r.id : r \in rows}
        fresh == IF ids = {} THEN 1 ELSE 1 + CHOOSE i \in ids : \A j \in ids : j <= i
    IN  IF hit = {}
        THEN rows \cup {[id |-> fresh, user_id |-> user_id, provider |-> Null,
                         credentials |-> payload.credentials,
                         state |-> Dumps(payload.state)]}
        ELSE {IF r \in hit THEN PatchRow(r, payload) ELSE r : r \in rows}

\* update_sync_user: .update(payload).eq("user_id", ...).eq("state", json.dumps(state))
UpdateRows(rows, user_id, state, payload) ==
    LET hit == EqState(EqUserId(rows, user_id), Dumps(state))
    IN  {IF r \in hit THEN PatchRow(r, payload) ELSE r : r \in rows}

OwnedBy(rows, u) == {r \in rows : r.user_id = u}

\* What a call record keeps of the call made just before it: a create_sync_user, or None.
Brief(l) ==
    IF l.op = "create_sync_user" THEN Some([input |-> l.input, ret |-> l.ret]) ELSE None

-----------------------------------------------------------------------------
(* Spec: the CRUD calls on an initially empty table *)

Init ==
    /\ db = {}
    /\ nextId = 1
    /\ prev = {}
    /\ last = [op |-> "init"]
    /\ alone = [u \in Owners |-> {}]

\* create_sync_user: the insert returned the new row.
CreateSyncUser ==
    \E input \in CreateInputs :
        /\ nextId <= MaxIds
        /\ LET row == InsertRow(ModelDump(input), nextId)
           IN  /\ db' = db \cup {row}
               /\ last' = [op |-> "create_sync_user", input |-> input, ret |-> Some(row)]
        /\ nextId' = nextId + 1
        /\ prev' = db
        /\ UNCHANGED alone

\* create_sync_user: the insert returned no row ("Failed to create sync user").
CreateSyncUserFailed ==
    \E input \in CreateInputs :
        /\ last' = [op |-> "create_sync_user", input |-> input, ret |-> None]
        /\ prev' = db
        /\ UNCHANGED <<db, nextId, alone>>

GetSyncUserById ==
    \E sync_id \in 0..MaxIds :
        LET data == EqId(db, IntStr(sync_id))
        IN  /\ \/ /\ data # {}
                  /\ \E r \in data :
                        last' = [op |-> "get_sync_user_by_id", sync_id |-> sync_id,
                                 ret |-> Some(ModelValidate(r)), after |-> Brief(last)]
               \/ /\ data = {}
                  /\ last' = [op |-> "get_sync_user_by_id", sync_id |-> sync_id,
                              ret |-> None, after |-> Brief(last)]
            /\ prev' = db
            /\ UNCHANGED <<db, nextId, alone>>

GetSyncsUser ==
    \E user_id \in Owners, sync_user_id \in OptIds :
        /\ last' = [op |-> "get_syncs_user", user_id |-> user_id,
                    sync_user_id |-> sync_user_id,
                    ret |-> SyncsUserRows(db, user_id, sync_user_id)]
        /\ prev' = db
        /\ UNCHANGED <<db, nextId, alone>>

GetSyncUserByState ==
    \E state \in StateDicts :
        LET data == ByStateRows(db, state)
        IN  /\ \/ /\ data # {}
                  /\ \E r \in data :
                        last' = [op |-> "get_sync_user_by_state", state |-> state,
                                 ret |-> Some(ModelValidate(r))]
               \/ /\ data = {}
                  /\ last' = [op |-> "get_sync_user_by_state", state |-> state,
                              ret |-> None]
            /\ prev' = db
            /\ UNCHANGED <<db, nextId, alone>>

DeleteSyncUser ==
    \E sync_id \in 0..MaxIds, user_id \in Owners :
        /\ db' = DeleteRows(db, sync_id, user_id)
        /\ last' = [op |-> "delete_sync_user", sync_id |-> sync_id, user_id |-> user_id]
        /\ prev' = db
        /\ UNCHANGED <<nextId, alone>>

UpdateSyncUser ==
    \E user_id \in Owners, state \in StateDicts, patch \in PatchInputs :
        /\ db' = UpdateRows(db, user_id, state, patch)
        /\ last' = [op |-> "update_sync_user", user_id |-> user_id, state |-> state,
                    patch |-> patch]
        /\ prev' = db
        /\ UNCHANGED <<nextId, alone>>

Next ==
    \/ CreateSyncUser
    \/ CreateSyncUserFailed
    \/ GetSyncUserById
    \/ GetSyncsUser
    \/ GetSyncUserByState
    \/ DeleteSyncUser
    \/ UpdateSyncUser

Spec == Init /\ [][Next]_vars

-----------------------------------------------------------------------------
(* SpecDispatch: get_files_folder_user_sync on any table of the bounded family *)

Azure == <<"A", "Z", "U", "R", "E">>
DropBox == <<"D", "r", "o", "p", "B", "o", "x">>
Notion == <<"N", "o", "t", "i", "o", "n">>
GitHub == <<"g", "i", "t", "h", "u", "b">>
Unknown == <<"U", "n", "k", "n", "o", "w", "n">>
StoredProviders == {Google, Azure, DropBox, Notion, GitHub, Unknown}

\* folder_id: str | None
FolderIds == {None, Some(""), Some("f")}

\* Row i of a table of the family: absent, or of some owner and provider.
RowChoices ==
    {[present |-> FALSE, user_id |-> "uA", provider |-> Google]}
    \cup [present : {TRUE}, user_id : Owners, provider : StoredProviders]

DispatchStores ==
    {{[id |-> i, user_id |-> c[i].user_id, provider |-> c[i].provider,
       credentials |-> Cred(i), state |-> Null] : i \in {j \in 1..MaxIds : c[j].present}}
     : c \in [1..MaxIds -> RowChoices]}

\* folder_id if folder_id else ""
FolderOrEmpty(folder_id) ==
    IF folder_id # None /\ folder_id[1] # "" THEN folder_id[1] ELSE ""

\* The file list a provider client returns for a call: opaque, a function of the call.
ClientResult(call) == [listed_by |-> call.client, with |-> call.args]

\* The return statement of a provider branch: {"files": <the client's result>}.
Files(call) ==
    [outcome |-> "files", calls |-> <<call>>, ret |-> [files |-> ClientResult(call)]]

\* Mutant of NotionBranch: the notion_service check is missing.
NotionBranchUnchecked(credentials, notion_service, folder_id, recursive) ==
    Files([client |-> "NotionSync",
           args |-> <<credentials, Some(FolderOrEmpty(folder_id)), recursive>>])

\* The notion branch: raises when no notion_service was passed.
NotionBranch(credentials, notion_service, folder_id, recursive) ==
    IF ~notion_service
    THEN [outcome |-> "raise", calls |-> <<>>, ret |-> "ValueError"]
    ELSE Files([client |-> "NotionSync",
                args |-> <<credentials, Some(FolderOrEmpty(folder_id)), recursive>>])

\* The provider switch of get_files_folder_user_sync on the record found.
DispatchProvider(sync_user, notion_service, folder_id, recursive) ==
    LET provider == Lower(sync_user.provider)
        credentials == sync_user.credentials
    IN  IF provider = <<"g", "o", "o", "g", "l", "e">>
        THEN Files([client |-> "GoogleDriveSync",
                    args |-> <<credentials, folder_id>>])
        ELSE IF provider = <<"a", "z", "u", "r", "e">>
        THEN Files([client |-> "AzureDriveSync",
                    args |-> <<credentials, folder_id, recursive>>])
        ELSE IF provider = <<"d", "r", "o", "p", "b", "o", "x">>
        THEN Files([client |-> "DropboxSync",
                    args |-> <<credentials, Some(FolderOrEmpty(folder_id)), recursive>>])
        ELSE IF provider = <<"n", "o", "t", "i", "o", "n">>
        THEN NotionBranch(credentials, notion_service, folder_id, recursive)
        ELSE IF provider = <<"g", "i", "t", "h", "u", "b">>
        THEN Files([client |-> "GitHubSync",
                    args |-> <<credentials, Some(FolderOrEmpty(folder_id)), recursive>>])
        ELSE [outcome |-> "sentinel", calls |-> <<>>, ret |-> "No sync found"]

InitDispatch ==
    /\ db \in DispatchStores
    /\ nextId = MaxIds + 1
    /\ prev = db
    /\ last = [op |-> "init"]
    /\ alone = [u \in Owners |-> {}]

\* One call of the coroutine get_files_folder_user_sync, run to its end, on a
\* repository with no call in progress. sync_user[0] is any row of the list the store
\* returned: the query has no ORDER BY.
GetFilesFolderUserSync ==
    /\ last.op = "init"
    /\ \E sync_active_id \in 0..MaxIds, user_id \in Owners, notion_service \in BOOLEAN,
       folder_id \in FolderIds, recursive \in BOOLEAN :
        LET sync_user == SyncsUserRows(db, user_id, Some(sync_active_id))
            call == [sync_active_id |-> sync_active_id, user_id |-> user_id,
                     notion_service |-> notion_service, folder_id |-> folder_id,
                     recursive |-> recursive]
        IN  /\ \/ /\ sync_user = {}
                  /\ last' = [op |-> "get_files_folder_user_sync",
                              call |-> call, found |-> None,
                              result |-> [outcome |-> "none", calls |-> <<>>,
                                          ret |-> "None"]]
               \/ /\ sync_user # {}
                  /\ \E r \in sync_user :
                        last' = [op |-> "get_files_folder_user_sync",
                                 call |-> call, found |-> Some(r),
                                 result |-> DispatchProvider(r, notion_service,
                                                             folder_id, recursive)]
            /\ prev' = db
            /\ UNCHANGED <<db, nextId, alone>>

\* The caller takes the result (or the exception) of the awaited coroutine.
AwaitResult ==
    /\ last.op = "get_files_folder_user_sync"
    /\ last' = [op |-> "init"]
    /\ prev' = db
    /\ UNCHANGED <<db, nextId, alone>>

NextDispatch ==
    \/ GetFilesFolderUserSync
    \/ AwaitResult

SpecDispatch == InitDispatch /\ [][NextDispatch]_vars

-----------------------------------------------------------------------------
(* SpecConc: two owners issuing update_sync_user and delete_sync_user calls, each *)
(* call one atomic statement of the store, in any interleaving                    *)

ConcStates == {D12, D1}

ConcChoices ==
    {[present |-> FALSE, user_id |-> "uA", state |-> D1]}
    \cup [present : {TRUE}, user_id : Owners, state : ConcStates]

ConcStores ==
    {{[id |-> i, user_id |-> c[i].user_id, provider |-> Google,
       credentials |-> Cred(1), state |-> Dumps(c[i].state)]
      : i \in {j \in 1..MaxIds : c[j].present}}
     : c \in [1..MaxIds -> ConcChoices]}

InitConc ==
    /\ db \in ConcStores
    /\ nextId = MaxIds + 1
    /\ prev = db
    /\ last = [op |-> "init"]
    /\ alone = [u \in Owners |-> OwnedBy(db, u)]

ConcUpdate(u) ==
    \E state \in ConcStates, patch \in PatchInputs :
        /\ db' = UpdateRows(db, u, state, patch)
        /\ alone' = [alone EXCEPT ![u] = UpdateRows(alone[u], u, state, patch)]
        /\ last' = [op |-> "update_sync_user", user_id |-> u, state |-> state,
                    patch |-> patch]
        /\ prev' = db
        /\ UNCHANGED nextId

ConcDelete(u) ==
    \E sync_id \in 1..MaxIds :
        /\ db' = DeleteRows(db, sync_id, u)
        /\ alone' = [alone EXCEPT ![u] = DeleteRows(alone[u], sync_id, u)]
        /\ last' = [op |-> "delete_sync_user", sync_id |-> sync_id, user_id |-> u]
        /\ prev' = db
        /\ UNCHANGED nextId

NextConc == \E u \in Owners : ConcUpdate(u) \/ ConcDelete(u)

SpecConc == InitConc /\ [][NextConc]_vars

-----------------------------------------------------------------------------
(* Properties *)

\* C1: delete_sync_user(id, ownerA) removes exactly the rows with that id and that
\* owner; a row of another owner stays as it is even when its id is the one given,
\* and the table is unchanged when no row matches.
C1_DeleteOnlyOwnRow ==
    last.op = "delete_sync_user" =>
        LET hit == {r \in prev : r.id = last.sync_id /\ r.user_id = last.user_id}
        IN  /\ db \subseteq prev
            /\ prev \ db = hit
            /\ \A r \in prev : r.user_id # last.user_id => r \in db
            /\ hit = {} => db = prev

\* A delete whose id is the id of a row of another owner.
C1_Witness ==
    /\ last.op = "delete_sync_user"
    /\ \E r \in prev : r.id = last.sync_id /\ r.user_id # last.user_id
    /\ \E r \in prev : r.user_id = last.user_id

\* C2: update_sync_user(owner, state, patch) sets the patch fields on the rows of that
\* owner whose state column is the serialized state, and leaves every other row, every
\* other field and the set of ids as they were; with no matching row nothing changes.
C2_UpdateFrame ==
    last.op = "update_sync_user" =>
        LET hit == {r \in prev : r.user_id = last.user_id /\ r.state = Dumps(last.state)}
        IN  /\ \A r \in prev \ hit : r \in db
            /\ \A r \in hit :
                  [id |-> r.id, user_id |-> r.user_id, provider |-> r.provider,
                   credentials |-> last.patch.credentials,
                   state |-> Dumps(last.patch.state)] \in db
            /\ {r.id : r \in db} = {r.id : r \in prev}
            /\ Cardinality(db) = Cardinality(prev)
            /\ hit = {} => db = prev

\* An update that patches a row while another owner holds a row with the same state.
C2_Witness ==
    /\ last.op = "update_sync_user"
    /\ db # prev
    /\ \E r \in prev : r.user_id # last.user_id /\ r.state = Dumps(last.state)

\* C3: get_sync_user_by_state answers the same for two payloads that hold the same
\* pairs in a different key order: what it returned for one payload is an answer for
\* every payload equal to it as a dict.
C3_CanonicalStateLookup ==
    last.op = "get_sync_user_by_state" =>
        \A s2 \in StateDicts :
            DictEq(s2, last.state) =>
                IF last.ret = None
                THEN ByStateRows(db, s2) = {}
                ELSE \E r \in ByStateRows(db, s2) : ModelValidate(r) = last.ret[1]

SuppliedValueRead(f, got, want) ==
    IF f = "state" THEN got # None /\ DictEq(got[1], want) ELSE got = want

\* C4: a create_sync_user that returns a record gives it an id no row had, and a
\* get_sync_user_by_id of that id right after it returns a record that carries the
\* supplied value on every supplied field.
C4_CreateThenGetById ==
    /\ (last.op = "create_sync_user" /\ last.ret # None) =>
           \A r \in prev : r.id # last.ret[1].id
    /\ (/\ last.op = "get_sync_user_by_id"
        /\ last.after # None
        /\ last.after[1].ret # None
        /\ last.sync_id = last.after[1].ret[1].id) =>
           /\ last.ret # None
           /\ \A f \in last.after[1].input.supplied :
                 SuppliedValueRead(f, last.ret[1][f], last.after[1].input.vals[f])

\* A get_sync_user_by_id of the id a create with a state just returned, in a table
\* that held a row before.
C4_Witness ==
    /\ last.op = "get_sync_user_by_id"
    /\ last.after # None
    /\ last.after[1].ret # None
    /\ last.sync_id = last.after[1].ret[1].id
    /\ "state" \in last.after[1].input.supplied
    /\ Cardinality(db) = 2

\* C5: a second update_sync_user with the arguments of the one just made leaves the
\* table as the first one left it.
C5_UpdateIdempotent ==
    last.op = "update_sync_user" =>
        UpdateRows(db, last.user_id, last.state, last.patch) = db

\* An update that changed a row and whose patch writes another state than the one
\* it filtered on.
C5_Witness ==
    /\ last.op = "update_sync_user"
    /\ db # prev
    /\ ~DictEq(last.patch.state, last.state)

\* C6: get_syncs_user(owner, None) returns the rows of the owner, and
\* get_syncs_user(owner, idX), for any idX >= 0, at most one row, which has id idX
\* and that owner.
C6_ListByOwner ==
    last.op = "get_syncs_user" =>
        IF last.sync_user_id = None
        THEN last.ret = OwnedBy(db, last.user_id)
        ELSE /\ Cardinality(last.ret) <= 1
             /\ \A r \in last.ret :
                   r.id = last.sync_user_id[1] /\ r.user_id = last.user_id

\* C7: when no row has both the id and the owner given, get_files_folder_user_sync
\* returns None and calls no provider client.
C7_NoMatchReturnsNone ==
    (/\ last.op = "get_files_folder_user_sync"
     /\ ~ \E r \in db : r.id = last.call.sync_active_id /\ r.user_id = last.call.user_id)
    => /\ last.result.outcome = "none"
       /\ last.result.calls = <<>>

\* Equality of two names ignoring the case of their letters.
SameIgnoringCase(a, b) ==
    /\ Len(a) = Len(b)
    /\ \A i \in 1..Len(a) :
          \/ a[i] = b[i]
          \/ \E k \in 1..26 : {a[i], b[i]} = {UpperCase[k], LowerCase[k]}

ProviderClients ==
    {<<Google, "GoogleDriveSync">>, <<Azure, "AzureDriveSync">>,
     <<DropBox, "DropboxSync">>, <<Notion, "NotionSync">>, <<GitHub, "GitHubSync">>}

ClientsFor(provider) ==
    {pc[2] : pc \in {x \in ProviderClients : SameIgnoringCase(x[1], provider)}}

\* C8 as stated: every record found with one of the five provider names (ignoring
\* case) has exactly its client called once, with the stored credentials and the
\* requested folder id, and {files: result} returned; any other name calls no client
\* and returns "No sync found".
C8_DispatchAsStated ==
    (last.op = "get_files_folder_user_sync" /\ last.found # None) =>
        LET res == last.result
            clients == ClientsFor(last.found[1].provider)
        IN  IF clients # {}
            THEN /\ res.outcome = "files"
                 /\ Len(res.calls) = 1
                 /\ res.calls[1].client \in clients
                 /\ res.calls[1].args[1] = last.found[1].credentials
                 /\ res.calls[1].args[2] = last.call.folder_id
                 /\ res.ret = [files |-> ClientResult(res.calls[1])]
            ELSE /\ res.outcome = "sentinel"
                 /\ res.calls = <<>>
                 /\ res.ret = "No sync found"

\* The folder argument the client of a provider receives for a requested folder id.
FolderPassed(client, folder_id) ==
    IF client \in {"GoogleDriveSync", "AzureDriveSync"} THEN folder_id
    ELSE IF folder_id = None THEN Some("") ELSE folder_id

\* C8 as amended: as stated, except that notion without a notion_service calls no
\* client and raises, and that the Dropbox, Notion and GitHub clients receive the
\* empty string when no folder id was requested.
C8_Dispatch ==
    (last.op = "get_files_folder_user_sync" /\ last.found # None) =>
        LET res == last.result
            clients == ClientsFor(last.found[1].provider)
        IN  IF clients = {"NotionSync"} /\ ~last.call.notion_service
            THEN /\ res.outcome = "raise"
                 /\ res.calls = <<>>
            ELSE IF clients # {}
            THEN /\ res.outcome = "files"
                 /\ Len(res.calls) = 1
                 /\ res.calls[1].client \in clients
                 /\ Cardinality(clients) = 1
                 /\ res.calls[1].args[1] = last.found[1].credentials
                 /\ res.calls[1].args[2] =
                        FolderPassed(res.calls[1].client, last.call.folder_id)
                 /\ res.ret = [files |-> ClientResult(res.calls[1])]
            ELSE /\ res.outcome = "sentinel"
                 /\ res.calls = <<>>
                 /\ res.ret = "No sync found"

\* A record stored as "DropBox" dispatched to the Dropbox client with no folder id.
C8_Witness ==
    /\ last.op = "get_files_folder_user_sync"
    /\ last.found # None
    /\ last.found[1].provider = DropBox
    /\ last.call.folder_id = None
    /\ last.result.outcome = "files"
    /\ last.result.calls[1].client = "DropboxSync"

\* C9: get_files_folder_user_sync raises exactly when the lookup found a record, its
\* provider is notion (ignoring case) and no notion_service was passed; it has then
\* called no client; the table is never changed.
C9_RaiseIffNotionWithoutService ==
    last.op = "get_files_folder_user_sync" =>
        /\ last.result.outcome = "raise" <=>
              (/\ last.found # None
               /\ SameIgnoringCase(last.found[1].provider, Notion)
               /\ ~last.call.notion_service)
        /\ last.result.outcome = "raise" => last.result.calls = <<>>
        /\ db = prev

\* A call that raised for the record of the id it asked for, on a table that also
\* holds a row of another provider.
C9_Witness ==
    /\ last.op = "get_files_folder_user_sync"
    /\ last.result.outcome = "raise"
    /\ last.found[1].id = last.call.sync_active_id
    /\ \E r \in db : ~SameIgnoringCase(r.provider, Notion)

\* C10: in every interleaving of the update and delete calls of the two owners, the
\* rows of each owner are those its own calls alone produce from its initial rows.
C10_OwnersIsolated ==
    \A u \in Owners : OwnedBy(db, u) = alone[u]

\* A delete by one owner, who has updated a row of its own, with the id of a row that
\* the other owner has updated.
C10_Witness ==
    /\ last.op = "delete_sync_user"
    /\ \E r \in db :
          /\ r.user_id # last.user_id
          /\ r.id = last.sync_id
          /\ r.credentials = Cred(2)
    /\ \E r \in db : r.user_id = last.user_id /\ r.credentials = Cred(2)

====
